---- MODULE Spec2Model ----
(***************************************************************************)
(* A model of the REST gateway of src/server.js.  The file holds three     *)
(* server variants:                                                        *)
(*   variant 1  (lines 1-201)    JWT middleware defined, routes unguarded  *)
(*   variant 2  (lines 203-631)  Firebase tokens, cache, balance upsert    *)
(*   variant 3  (lines 633-930)  Firebase tokens, cache, read-only sheets  *)
(* Every request is a little process: it moves from one await of its       *)
(* handler to the next, and the steps of different requests interleave.    *)
(* Numbers are fixed-point integers in thousandths.                        *)
(* src/unnamed/part_000 is the tunnel bootstrap, a process of its own:     *)
(* boot is its state (BootOff while the model looks at the gateway).       *)
(***************************************************************************)
EXTENDS Integers, Sequences, FiniteSets, TLC

VARIABLES variant, now, cache, balanceSheet, tradeRows, req, lastFetch, firstFetch,
          boot

vars == <<variant, now, cache, balanceSheet, tradeRows, req, lastFetch, firstFetch,
          boot>>

\* ------------------------------------------------------------------ bounds
NReq == 2
MaxTime == 61
MaxSheet == 3
MaxRows == 22
MaxSignals == 2

\* ------------------------------------------------------- program constants
TTL == 30
PnlWindow == 20
PnlDelay == 1

Req == 1..NReq

\* --------------------------------------------------------------- JS values
\* A loosely typed cell or JS value: undefined, a string, a number (in
\* thousandths), NaN, or the string a number formats to ("dec2": toFixed(2),
\* n in hundredths; "numstr": Number.prototype.toString, n in thousandths).
Undef == [t |-> "undef", n |-> 0, s |-> ""]
Str(x) == [t |-> "str", n |-> 0, s |-> x]
Num(k) == [t |-> "num", n |-> k, s |-> ""]
NaN == [t |-> "nan", n |-> 0, s |-> ""]

\* JS truthiness: undefined, "", 0 and NaN are falsy.
Truthy(v) ==
  CASE v.t = "undef" -> FALSE
    [] v.t = "nan" -> FALSE
    [] v.t = "num" -> v.n # 0
    [] v.t = "str" -> v.s # ""
    [] OTHER -> TRUE

\* a || b
OrElse(a, b) == IF Truthy(a) THEN a ELSE b

\* row[i] with a 0-based index: undefined beyond the row's end.
At(row, i) == IF i < Len(row) THEN row[i + 1] ELSE Undef

\* The numeric strings of the model and the numbers they parse to.
NumericStrings == {"12.345", "-3"}
ParseStr(s) ==
  CASE s = "12.345" -> Num(12345)
    [] s = "-3" -> Num(-3000)
    [] OTHER -> NaN

\* parseFloat(v): a number stays, a string is parsed, anything else is NaN.
ParseFloat(v) ==
  CASE v.t = "num" -> v
    [] v.t = "str" -> ParseStr(v.s)
    [] OTHER -> NaN

Abs(k) == IF k < 0 THEN -k ELSE k
Sign(k) == IF k < 0 THEN -1 ELSE 1

\* Number.prototype.toFixed(2): the nearest hundredth, ties away from zero;
\* NaN formats to the string "NaN".
ToFixed2(v) ==
  IF v.t = "num"
  THEN [t |-> "dec2", n |-> Sign(v.n) * ((Abs(v.n) + 5) \div 10), s |-> ""]
  ELSE Str("NaN")

\* Math.round: the nearest integer, ties toward +infinity.
MathRound(v) ==
  IF v.t = "num" THEN Num(((v.n + 500) \div 1000) * 1000) ELSE NaN

\* value?.toString(): undefined stays undefined, a number becomes its
\* (non-empty) decimal string.
ToStringOpt(v) ==
  CASE v.t = "num" -> [t |-> "numstr", n |-> v.n, s |-> ""]
    [] OTHER -> v

IsNumber(v) == v.t \in {"num", "nan"}

\* ------------------------------------------------------------ identities
SP == " "

\* Bearer tokens are strings of characters; "a" and "b" are tokens the
\* identity provider issued, "z" is a forged or expired one.
TokA == <<"a">>
TokB == <<"b">>
TokZ == <<"z">>
ValidTokens == {TokA, TokB}

\* The claims of a verified token (admin.auth().verifyIdToken).
Decode(tok) ==
  IF tok = TokA
  THEN [email |-> Str("a@x"), name |-> Str("Ann"), uid |-> Str("ua"),
        phone_number |-> Str("555-0100")]
  ELSE [email |-> Str("b@x"), name |-> Undef, uid |-> Str("ub"),
        phone_number |-> Undef]

Emails == {Str("a@x"), Str("b@x")}

\* email.split('@')[0]
LocalPart(email) ==
  CASE email = Str("a@x") -> Str("a")
    [] email = Str("b@x") -> Str("b")
    [] OTHER -> email

\* req.user before the middleware has set it.
NoUser == [set |-> FALSE, email |-> Undef, displayName |-> Undef, uid |-> Undef]

\* ------------------------------------------------------ Authorization header
NoHeader == [present |-> FALSE, chars |-> <<>>]
Header(cs) == [present |-> TRUE, chars |-> cs]

Headers ==
  { NoHeader,
    Header(<<"B">>),
    Header(<<"B", SP>>),
    Header(<<"B", SP, SP, "a">>),
    Header(<<"B", SP, "a">>),
    Header(<<"B", SP, "b">>),
    Header(<<"B", SP, "z">>) }

\* String.prototype.split(' ')
RECURSIVE SplitFrom(_, _, _)
SplitFrom(s, i, cur) ==
  IF i > Len(s) THEN <<cur>>
  ELSE IF s[i] = SP THEN <<cur>> \o SplitFrom(s, i + 1, <<>>)
  ELSE SplitFrom(s, i + 1, Append(cur, s[i]))

Split(s) == SplitFrom(s, 1, <<>>)

\* const token = authHeader && authHeader.split(' ')[1];
\* [def |-> FALSE] stands for undefined.
TokenOf(hdr) ==
  IF ~hdr.present THEN [def |-> FALSE, chars |-> <<>>]
  ELSE LET parts == Split(hdr.chars)
       IN IF Len(parts) >= 2 THEN [def |-> TRUE, chars |-> parts[2]]
          ELSE [def |-> FALSE, chars |-> <<>>]

\* !token
NoToken(tok) == ~tok.def \/ tok.chars = <<>>

\* ------------------------------------------------------------------ routes
Endpoints ==
  {"verify-token", "performance-data", "trade-history", "pnl-data",
   "wallet-data", "signup", "login/google"}

\* The routes each variant registers.
Defined(v, ep) ==
  CASE v = 1 -> ep \in {"performance-data", "trade-history", "pnl-data"}
    [] v = 2 -> ep \in Endpoints
    [] OTHER -> ep \in Endpoints \ {"wallet-data", "signup"}

\* The routes registered with the authenticateToken middleware in front.
Guarded(v, ep) ==
  CASE v = 1 -> FALSE
    [] OTHER -> Defined(v, ep) /\ ep # "login/google"

\* ---------------------------------------------------------------- requests
NoBody == [email |-> Undef, displayName |-> Undef, phoneNumber |-> Undef,
           idToken |-> [def |-> FALSE, chars |-> <<>>]]
NoOut == [kind |-> "none", val |-> <<>>]
NoHit == [found |-> FALSE, v |-> <<>>]

\* A request slot.  pc is the await the handler is suspended at; user is
\* req.user; cachedData, rows and userData are the handler's locals; reads and
\* appends count the spreadsheet calls the request has issued; start,
\* startLive, expect, failed, prior, hadRow and threw (the code of the error
\* its spreadsheet read rejected with, 0 for none) record what the request
\* met on its way.
IdleReq ==
  [pc |-> "idle", ep |-> "none", hdr |-> NoHeader, body |-> NoBody,
   token |-> [def |-> FALSE, chars |-> <<>>], user |-> NoUser,
   status |-> 0, out |-> NoOut, cachedData |-> NoHit,
   userData |-> NoBody, wake |-> 0, start |-> 0,
   reads |-> 0, appends |-> 0, startLive |-> "na", expect |-> <<>>,
   failed |-> FALSE, prior |-> FALSE, hadRow |-> FALSE, threw |-> 0]

\* res.status(status).json(body): the handler is finished.
Respond(rq, status, kind, val) ==
  [rq EXCEPT !.pc = "done", !.status = status, !.out = [kind |-> kind, val |-> val]]

ErrorBody(msg) == msg

\* --------------------------------------------------------- response cache
\* node-cache: an entry lives until its expiry time t has passed; a get of
\* an expired key misses and deletes it.
NoCache == [set |-> FALSE, v |-> <<>>, t |-> 0]

\* A cache that drops an entry one second early.
CacheExpiredEarly(c, time) == c.set /\ c.t <= time

CacheExpired(c, time) == c.set /\ c.t < time

CacheGet(c, time) ==
  IF c.set /\ ~CacheExpired(c, time) THEN [found |-> TRUE, v |-> c.v] ELSE NoHit

CacheAfterGet(c, time) == IF CacheExpired(c, time) THEN NoCache ELSE c

\* A set that keeps the entry for twice the time it was given.
CacheSetLong(v, ttl, time) == [set |-> TRUE, v |-> v, t |-> time + 2 * ttl]

CacheSet(v, ttl, time) == [set |-> TRUE, v |-> v, t |-> time + ttl]

\* ------------------------------------------------------ authenticateToken
\* A middleware that answers a missing token like a rejected one.
AuthStartOneKind(rq) ==
  LET token == TokenOf(rq.hdr)
  IN IF NoToken(token)
     THEN Respond(rq, 403, "error", ErrorBody("Invalid token"))
     ELSE [rq EXCEPT !.pc = "verifying", !.token = token]

\* The synchronous part: read the header, 401 when there is no token part,
\* otherwise await the verifier.
AuthStart(rq) ==
  LET token == TokenOf(rq.hdr)
  IN IF NoToken(token)
     THEN Respond(rq, 401, "error", ErrorBody("No token provided"))
     ELSE [rq EXCEPT !.pc = "verifying", !.token = token]

\* req.user as the variant builds it from the decoded token.
UserOf(v, tok) ==
  LET d == Decode(tok)
  IN IF v = 2
     THEN [set |-> TRUE, email |-> d.email,
           displayName |-> OrElse(d.name, LocalPart(d.email)), uid |-> d.uid]
     ELSE [set |-> TRUE, email |-> d.email, displayName |-> d.name, uid |-> d.uid]

\* The verifier answered: next() with req.user set, or 403.
AuthResult(v, rq, ok) ==
  IF ok
  THEN [rq EXCEPT !.pc = "next", !.user = UserOf(v, rq.token.chars)]
  ELSE Respond(rq, 403, "error", ErrorBody("Invalid token"))

\* ------------------------------------------------- GET /api/performance-data
\* The rows the fixed performance range can hold (Trade-History!H1:N1 in
\* variants 2 and 3, Performance-Overview!B2:E3 in variant 1).
RowP1 == <<Num(1234), Str("x"), Num(-2505), Str(""), Num(10500), Str(""), Num(99499)>>
RowP2 == <<Str("12.345"), Str(""), Num(0), Str(""), Num(-500)>>
PerfRows == {RowP1, RowP2}

\* What a spreadsheets.values.get can come back with: an error (with the
\* provider's code), or the rows of the range (none: values is undefined).
Throw(code) == [kind |-> "throw", code |-> code, rows |-> <<>>]
Rows(rs) == [kind |-> "rows", code |-> 200, rows |-> rs]
ErrorCodes == {429, 503}
ErrorMessage(code) == IF code = 429 THEN "Quota exceeded" ELSE "Service unavailable"

\* formattedResult (lines 402-408)
Shape(values) ==
  [thisWeek |-> ToFixed2(ParseFloat(OrElse(At(values, 0), Num(0)))),
   lastWeek |-> ToFixed2(ParseFloat(OrElse(At(values, 2), Num(0)))),
   monthly |-> MathRound(ParseFloat(OrElse(At(values, 4), Num(0)))),
   yearly |-> MathRound(ParseFloat(OrElse(At(values, 6), Num(0))))]

\* try { cachedData = cache.get(..); if (cachedData) return ..; await get(..)
PerfStart(rq, c, time) ==
  LET cachedData == CacheGet(c, time)
  IN IF cachedData.found
     THEN [rq |-> Respond(rq, 200, "perf", cachedData.v),
           cache |-> CacheAfterGet(c, time)]
     ELSE [rq |-> [rq EXCEPT !.pc = "perf_get", !.cachedData = cachedData,
                              !.reads = @ + 1],
           cache |-> CacheAfterGet(c, time)]

\* catch (error) { cachedData = cache.get(..); if (cachedData) return ..; 500 }
PerfCatch(rq, c, time, msg) ==
  LET cachedData == CacheGet(c, time)
  IN IF cachedData.found
     THEN [rq |-> Respond(rq, 200, "perf", cachedData.v),
           cache |-> CacheAfterGet(c, time)]
     ELSE [rq |-> Respond(rq, 500, "error", ErrorBody(msg)),
           cache |-> CacheAfterGet(c, time)]

\* The continuation after the await: empty range, shaping, cache.set.
PerfReturn(rq, o, c, time) ==
  IF o.kind = "throw" THEN PerfCatch(rq, c, time, ErrorMessage(o.code))
  ELSE IF Len(o.rows) = 0
  THEN IF rq.cachedData.found
       THEN [rq |-> Respond(rq, 200, "perf", rq.cachedData.v), cache |-> c]
       ELSE PerfCatch(rq, c, time, "No data found in spreadsheet")
  ELSE LET formattedResult == Shape(o.rows[1])
       IN [rq |-> Respond(rq, 200, "perf", formattedResult),
           cache |-> CacheSet(formattedResult, TTL, time)]

\* Variant 1: no cache; the range holds a row of changes and a row of values.
PerfStartV1(rq, c) ==
  [rq |-> [rq EXCEPT !.pc = "perf_get", !.reads = @ + 1], cache |-> c]

PerfReturnV1(rq, o, c) ==
  IF o.kind = "throw"
  THEN [rq |-> Respond(rq, 500, "error", ErrorBody("Failed to fetch performance data")),
        cache |-> c]
  ELSE IF Len(o.rows) < 2
  THEN [rq |-> Respond(rq, 404, "error", ErrorBody("No data found in spreadsheet")),
        cache |-> c]
  ELSE [rq |-> Respond(rq, 200, "perfV1",
                 [i \in 1..4 |-> [value |-> At(o.rows[2], i - 1),
                                  change |-> At(o.rows[1], i - 1)]]),
        cache |-> c]

\* ------------------------------------------------------ sequence helpers
Reverse(q) == [i \in 1..Len(q) |-> q[Len(q) + 1 - i]]
\* Array.prototype.slice(-n)
LastN(q, n) == IF Len(q) <= n THEN q ELSE SubSeq(q, Len(q) - n + 1, Len(q))
Null == [t |-> "null", n |-> 0, s |-> ""]

\* ---------------------------------------------------- GET /api/trade-history
\* .filter(row => row.length >= 4)
KeepRow(row) == Len(row) >= 4

\* .map(row => ({timestamp, symbol, direction, pnl}))
TradeOf(row) ==
  LET pnl == ParseFloat(OrElse(At(row, 3), Num(0)))
  IN [timestamp |-> At(row, 0),
      symbol |-> OrElse(ToStringOpt(At(row, 1)), Str("GOLD")),
      direction |-> OrElse(ToStringOpt(At(row, 2)), Str("BUY")),
      pnl |-> IF pnl.t = "nan" THEN Num(0) ELSE pnl]

\* .filter(trade => trade.timestamp && trade.symbol && trade.direction && ..)
KeepTrade(trade) ==
  /\ Truthy(trade.timestamp)
  /\ Truthy(trade.symbol)
  /\ Truthy(trade.direction)
  /\ IsNumber(trade.pnl)

Trades(values) ==
  LET rows == SelectSeq(values, KeepRow)
      mapped == [i \in 1..Len(rows) |-> TradeOf(rows[i])]
  IN Reverse(SelectSeq(mapped, KeepTrade))

TradesStart(rq, c) ==
  [rq |-> [rq EXCEPT !.pc = "trades_get", !.reads = @ + 1], cache |-> c]

TradesReturn(rq, o) ==
  IF o.kind = "throw"
  THEN Respond(rq, 500, "error", ErrorBody("Failed to fetch trade history"))
  ELSE IF Len(o.rows) = 0 THEN Respond(rq, 200, "trades", <<>>)
  ELSE Respond(rq, 200, "trades", Trades(o.rows))

\* Variant 1: every row, six named cells, reversed.
TradeOfV1(row) ==
  [date |-> At(row, 0), name |-> At(row, 1), tradeType |-> At(row, 2),
   pnl |-> At(row, 3), open |-> At(row, 4), close |-> At(row, 5)]

TradesReturnV1(rq, o) ==
  IF o.kind = "throw"
  THEN Respond(rq, 500, "error", ErrorBody("Failed to fetch trade history"))
  ELSE IF Len(o.rows) = 0 THEN Respond(rq, 200, "trades", <<>>)
  ELSE Respond(rq, 200, "trades", Reverse([i \in 1..Len(o.rows) |-> TradeOfV1(o.rows[i])]))

\* --------------------------------------------------------- GET /api/pnl-data
\* .filter(row => row[0] && row[3] !== undefined)
KeepPnlRow(row) == Truthy(At(row, 0)) /\ At(row, 3) # Undef

\* .map(row => ({date: row[0], pnl: parseFloat(row[3] || 0).toFixed(2)}))
PnlOf(row) ==
  [date |-> At(row, 0), pnl |-> ToFixed2(ParseFloat(OrElse(At(row, 3), Num(0))))]

Pnl(values) ==
  LET rows == SelectSeq(values, KeepPnlRow)
  IN LastN([i \in 1..Len(rows) |-> PnlOf(rows[i])], PnlWindow)

\* await new Promise(resolve => setTimeout(resolve, 1000))
PnlStart(rq, c, time) ==
  [rq |-> [rq EXCEPT !.pc = "pnl_sleep", !.wake = time + PnlDelay], cache |-> c]

PnlWake(rq) == [rq EXCEPT !.pc = "pnl_get", !.reads = @ + 1]

PnlReturn(rq, o) ==
  IF o.kind = "throw"
  THEN IF o.code = 429
       THEN Respond(rq, 429, "error", ErrorBody("Rate limit exceeded"))
       ELSE Respond(rq, 500, "error", ErrorBody("Internal server error"))
  ELSE IF Len(o.rows) = 0 THEN Respond(rq, 200, "pnl", <<>>)
  ELSE Respond(rq, 200, "pnl", Pnl(o.rows))

\* Variant 1: every row, pnl parsed or null, no window, no formatting.
PnlOfV1(row) ==
  [date |-> At(row, 0),
   pnl |-> IF Truthy(At(row, 3)) THEN ParseFloat(At(row, 3)) ELSE Null]

PnlStartV1(rq, c) ==
  [rq |-> [rq EXCEPT !.pc = "pnl_get", !.reads = @ + 1], cache |-> c]

PnlReturnV1(rq, o) ==
  IF o.kind = "throw"
  THEN Respond(rq, 500, "error", ErrorBody("Failed to fetch PNL data"))
  ELSE IF Len(o.rows) = 0 THEN Respond(rq, 200, "pnl", <<>>)
  ELSE Respond(rq, 200, "pnl", [i \in 1..Len(o.rows) |-> PnlOfV1(o.rows[i])])

\* --------------------------------------------------- updateUserBalanceSheet
\* existingData.findIndex(row => row[1] === userData.email): the 1-based
\* index of the first match, 0 for findIndex's -1.
RECURSIVE FindFrom(_, _, _)
FindFrom(rows, email, i) ==
  IF i > Len(rows) THEN 0
  ELSE IF At(rows[i], 1) = email THEN i
  ELSE FindFrom(rows, email, i + 1)

userIndex(existingData, email) == FindFrom(existingData, email, 1)

newRow(userData) ==
  <<OrElse(userData.displayName, Str("")), userData.email,
    OrElse(userData.phoneNumber, Str("")), Num(0), Num(0), Num(0), Num(0)>>

\* The call: the read of User-Balance!A2:G is issued.
UpdStart(rq, userData) ==
  [rq EXCEPT !.pc = "upd_get", !.userData = userData, !.reads = @ + 1]

\* What the caller does once updateUserBalanceSheet has resolved / thrown.
UpdDone(rq) ==
  IF rq.ep = "signup"
  THEN Respond(rq, 200, "ok", "User created successfully")
  ELSE [rq EXCEPT !.pc = "create_token"]

UpdFailed(rq) ==
  IF rq.ep = "signup"
  THEN Respond(rq, 500, "error", ErrorBody("Internal server error"))
  ELSE Respond(rq, 500, "error", ErrorBody("Failed to authenticate with Google"))

\* An upsert that writes the row whether or not the email is there.
UpdReadAlways(rq, o) ==
  IF o.kind = "throw" THEN UpdFailed(rq)
  ELSE [rq EXCEPT !.pc = "upd_append", !.appends = @ + 1]

\* The read returned: append when no row has the email, else nothing.
UpdRead(rq, o) ==
  IF o.kind = "throw" THEN UpdFailed(rq)
  ELSE IF userIndex(o.rows, rq.userData.email) = 0
  THEN [rq EXCEPT !.pc = "upd_append", !.appends = @ + 1]
  ELSE UpdDone(rq)

\* The sheet after spreadsheets.values.append of one row.
Appended(sheet, row) == Append(sheet, row)

\* ------------------------------------------------------- POST /api/signup
\* A signup that trusts the body's email.
SignupStartUnchecked(rq, c) == [rq |-> UpdStart(rq, rq.body), cache |-> c]

SignupStart(rq, c) ==
  IF rq.user.email # rq.body.email
  THEN [rq |-> Respond(rq, 403, "error",
                 ErrorBody("Token email does not match provided email")),
        cache |-> c]
  ELSE [rq |-> UpdStart(rq, rq.body), cache |-> c]

\* ------------------------------------------------- POST /api/login/google
LoginStart(rq, c) ==
  IF NoToken(rq.body.idToken)
  THEN [rq |-> Respond(rq, 400, "error", ErrorBody("No ID token provided")),
        cache |-> c]
  ELSE [rq |-> [rq EXCEPT !.pc = "id_verify", !.token = rq.body.idToken],
        cache |-> c]

\* verifyIdToken answered.  Variant 2 upserts the balance row next; variant 3
\* goes straight to createCustomToken.
LoginVerified(v, rq, ok) ==
  IF ~ok
  THEN Respond(rq, 500, "error", ErrorBody("Failed to authenticate with Google"))
  ELSE LET decodedToken == Decode(rq.token.chars)
       IN IF v = 2
          THEN UpdStart(rq, [rq.body EXCEPT !.email = decodedToken.email,
                                            !.displayName = decodedToken.name,
                                            !.phoneNumber = decodedToken.phone_number])
          ELSE [rq EXCEPT !.pc = "create_token"]

\* createCustomToken answered.
LoginToken(rq, ok) ==
  IF ok
  THEN Respond(rq, 200, "token", Decode(rq.token.chars))
  ELSE Respond(rq, 500, "error", ErrorBody("Failed to authenticate with Google"))

\* ---------------------------------------------------- GET /api/wallet-data
WalletStart(rq, c) ==
  [rq |-> [rq EXCEPT !.pc = "wallet_get", !.reads = @ + 1], cache |-> c]

\* A lookup that takes the sheet's first row, whoever it belongs to.
WalletCellFirstRow(values, email, i) ==
  ParseFloat(OrElse(At(values[1], i), Num(0)))

\* parseFloat(userData?.[i] || 0), userData the first row whose email matches
WalletCell(values, email, i) ==
  LET k == userIndex(values, email)
  IN ParseFloat(OrElse(IF k = 0 THEN Undef ELSE At(values[k], i), Num(0)))

WalletReturn(rq, o) ==
  IF o.kind = "throw"
  THEN Respond(rq, 500, "error", ErrorBody("Failed to fetch wallet data"))
  ELSE IF Len(o.rows) = 0
  THEN Respond(rq, 200, "wallet",
         [userEmail |-> rq.user.email, balance |-> Num(0), earnings |-> Num(0)])
  ELSE Respond(rq, 200, "wallet",
         [userEmail |-> rq.user.email,
          balance |-> WalletCell(o.rows, rq.user.email, 6),
          earnings |-> WalletCell(o.rows, rq.user.email, 5)])

\* -------------------------------------------------- GET /api/verify-token
VerifyToken(rq, c) == [rq |-> Respond(rq, 200, "user", rq.user), cache |-> c]

\* ------------------------------------------------------------- dispatch
\* The route handler up to its first await (the whole of it when it has none).
Handler(v, rq, c, time) ==
  CASE rq.ep = "verify-token" -> VerifyToken(rq, c)
    [] rq.ep = "performance-data" ->
         IF v = 1 THEN PerfStartV1(rq, c) ELSE PerfStart(rq, c, time)
    [] rq.ep = "trade-history" -> TradesStart(rq, c)
    [] rq.ep = "pnl-data" ->
         IF v = 1 THEN PnlStartV1(rq, c) ELSE PnlStart(rq, c, time)
    [] rq.ep = "wallet-data" -> WalletStart(rq, c)
    [] rq.ep = "signup" -> SignupStart(rq, c)
    [] OTHER -> LoginStart(rq, c)

\* ------------------------------------------------------------ bookkeeping
NoFetch == [set |-> FALSE, t |-> 0, p |-> <<>>]

HasRow(sheet, email) == \E i \in 1..Len(sheet) : At(sheet[i], 1) = email

\* What a request meets when its handler starts: whether the most recent
\* successful performance fetch is at most 30 seconds old, and its payload.
Met(rq) ==
  [rq EXCEPT !.startLive = IF ~lastFetch.set THEN "cold"
                           ELSE IF now - lastFetch.t <= 30 THEN "live"
                           ELSE "stale",
             !.expect = lastFetch.p,
             !.start = now]

\* Whether the email had a balance row when updateUserBalanceSheet was called.
Called(old, rq) ==
  IF rq.pc = "upd_get" /\ old.pc # "upd_get"
  THEN [rq EXCEPT !.hadRow = HasRow(balanceSheet, rq.userData.email)]
  ELSE rq

SetReq(r, rq) == req' = [req EXCEPT ![r] = Called(req[r], rq)]

\* The error code the endpoint's spreadsheet read rejected with.
Threw(rq, o) == [rq EXCEPT !.threw = IF o.kind = "throw" THEN o.code ELSE 0]

\* next(): run the route handler up to its first await.
Enter(r, rq) ==
  LET res == Handler(variant, Met(rq), cache, now)
  IN /\ SetReq(r, res.rq)
     /\ cache' = res.cache

Throws == {Throw(code) : code \in ErrorCodes}

\* ---------------------------------------------------------------- actions
\* Every response sent has been delivered.  A finished request does nothing
\* more, so its delivery (Recycle) commutes with every other step; taking it
\* first loses no behaviour of the gateway.
Delivered == \A q \in Req : req[q].pc # "done"

\* A request arrives: 404 for a route the variant lacks, the middleware for
\* a guarded route, the handler itself for an unguarded one.
Receive(r, ep, hdr, body) ==
  /\ Delivered
  /\ req[r].pc = "idle"
  /\ LET rq == [IdleReq EXCEPT !.ep = ep, !.hdr = hdr, !.body = body]
     IN IF ~Defined(variant, ep)
        THEN /\ SetReq(r, Respond(rq, 404, "error", ErrorBody("Route not found")))
             /\ UNCHANGED cache
        ELSE IF Guarded(variant, ep)
        THEN /\ SetReq(r, AuthStart(rq))
             /\ UNCHANGED cache
        ELSE Enter(r, rq)
  /\ UNCHANGED <<boot, variant, now, balanceSheet, tradeRows, lastFetch, firstFetch>>

\* A middleware that holds its answer back while any other request is
\* waiting on the spreadsheet.
VerifyReturnSerial(r, ok) ==
  /\ Delivered
  /\ req[r].pc = "verifying"
  /\ \A q \in Req \ {r} : req[q].pc \in {"idle", "verifying"}
  /\ ok => req[r].token.chars \in ValidTokens
  /\ LET rq == AuthResult(variant, req[r], ok)
     IN IF rq.pc = "next"
        THEN Enter(r, rq)
        ELSE /\ SetReq(r, rq)
             /\ UNCHANGED cache
  /\ UNCHANGED <<boot, variant, now, balanceSheet, tradeRows, lastFetch, firstFetch>>

\* The identity provider answers the middleware's verifyIdToken.
VerifyReturn(r, ok) ==
  /\ Delivered
  /\ req[r].pc = "verifying"
  /\ ok => req[r].token.chars \in ValidTokens
  /\ LET rq == AuthResult(variant, req[r], ok)
     IN IF rq.pc = "next"
        THEN Enter(r, rq)
        ELSE /\ SetReq(r, rq)
             /\ UNCHANGED cache
  /\ UNCHANGED <<boot, variant, now, balanceSheet, tradeRows, lastFetch, firstFetch>>

\* The performance range read returns.
PerfGetReturn(r, o) ==
  /\ Delivered
  /\ req[r].pc = "perf_get"
  /\ variant # 1 => Len(o.rows) <= 1
  /\ LET res == IF variant = 1 THEN PerfReturnV1(req[r], o, cache)
                ELSE PerfReturn(req[r], o, cache, now)
         ok == o.kind = "rows" /\ Len(o.rows) >= 1 /\ variant # 1
         fetch == IF ok THEN [set |-> TRUE, t |-> now, p |-> Shape(o.rows[1])]
                  ELSE NoFetch
     IN /\ SetReq(r, Threw([res.rq EXCEPT !.failed = ~ok, !.prior = lastFetch.set], o))
        /\ cache' = res.cache
        /\ lastFetch' = IF ok THEN fetch ELSE lastFetch
        /\ firstFetch' = IF ok /\ ~firstFetch.set THEN fetch ELSE firstFetch
  /\ UNCHANGED <<boot, variant, now, balanceSheet, tradeRows>>

PerfOutcomes ==
  Throws \cup {Rows(<<>>)} \cup {Rows(<<row>>) : row \in PerfRows}
    \cup {Rows(<<RowP1, RowP2>>)}

\* The Trade-History read of /api/trade-history returns.
TradesGetReturn(r, o) ==
  /\ Delivered
  /\ req[r].pc = "trades_get"
  /\ SetReq(r, Threw(IF variant = 1 THEN TradesReturnV1(req[r], o)
                     ELSE TradesReturn(req[r], o), o))
  /\ UNCHANGED <<boot, variant, now, cache, balanceSheet, tradeRows, lastFetch, firstFetch>>

\* The one-second timer of /api/pnl-data fires and the read is issued.
PnlTimer(r) ==
  /\ Delivered
  /\ req[r].pc = "pnl_sleep"
  /\ now >= req[r].wake
  /\ SetReq(r, PnlWake(req[r]))
  /\ UNCHANGED <<boot, variant, now, cache, balanceSheet, tradeRows, lastFetch, firstFetch>>

\* The Trade-History read of /api/pnl-data returns.
PnlGetReturn(r, o) ==
  /\ Delivered
  /\ req[r].pc = "pnl_get"
  /\ SetReq(r, Threw(IF variant = 1 THEN PnlReturnV1(req[r], o)
                     ELSE PnlReturn(req[r], o), o))
  /\ UNCHANGED <<boot, variant, now, cache, balanceSheet, tradeRows, lastFetch, firstFetch>>

\* The User-Balance read of /api/wallet-data returns.
WalletGetReturn(r, o) ==
  /\ Delivered
  /\ req[r].pc = "wallet_get"
  /\ SetReq(r, Threw([WalletReturn(req[r], o) EXCEPT !.failed = (o.kind = "throw")], o))
  /\ UNCHANGED <<boot, variant, now, cache, balanceSheet, tradeRows, lastFetch, firstFetch>>

\* The identity provider answers /api/login/google's verifyIdToken.
IdVerifyReturn(r, ok) ==
  /\ Delivered
  /\ req[r].pc = "id_verify"
  /\ ok => req[r].token.chars \in ValidTokens
  /\ SetReq(r, LoginVerified(variant, req[r], ok))
  /\ UNCHANGED <<boot, variant, now, cache, balanceSheet, tradeRows, lastFetch, firstFetch>>

\* The User-Balance read of updateUserBalanceSheet returns.
UpdGetReturn(r, o) ==
  /\ Delivered
  /\ req[r].pc = "upd_get"
  /\ SetReq(r, UpdRead(req[r], o))
  /\ UNCHANGED <<boot, variant, now, cache, balanceSheet, tradeRows, lastFetch, firstFetch>>

\* The append of updateUserBalanceSheet returns: the row is in the sheet, or
\* the call failed.
UpdAppendReturn(r, ok) ==
  /\ Delivered
  /\ req[r].pc = "upd_append"
  /\ ok => Len(balanceSheet) < MaxSheet
  /\ IF ok
     THEN /\ balanceSheet' = Appended(balanceSheet, newRow(req[r].userData))
          /\ SetReq(r, UpdDone(req[r]))
     ELSE /\ UNCHANGED balanceSheet
          /\ SetReq(r, UpdFailed(req[r]))
  /\ UNCHANGED <<boot, variant, now, cache, tradeRows, lastFetch, firstFetch>>

\* createCustomToken returns.
CreateTokenReturn(r, ok) ==
  /\ Delivered
  /\ req[r].pc = "create_token"
  /\ SetReq(r, LoginToken(req[r], ok))
  /\ UNCHANGED <<boot, variant, now, cache, balanceSheet, tradeRows, lastFetch, firstFetch>>

\* The response has been sent; the slot is free for the next request.
Recycle(r) ==
  /\ req[r].pc = "done"
  /\ req' = [req EXCEPT ![r] = IdleReq]
  /\ UNCHANGED <<boot, variant, now, cache, balanceSheet, tradeRows, lastFetch, firstFetch>>

\* Time passes.  The clock is sampled at the instants k*TTL and k*TTL + 1,
\* which puts reads 0, 1, TTL - 1, TTL and TTL + 1 seconds after a fetch.
Tick ==
  /\ Delivered
  /\ now' = IF now % TTL = 0 THEN now + 1 ELSE now + TTL - 1
  /\ now' <= MaxTime
  /\ UNCHANGED <<boot, variant, cache, balanceSheet, tradeRows, req, lastFetch, firstFetch>>

\* ------------------------------------------- tunnel bootstrap (part_000)
\* process.env.PORT || 3001
DefaultPort == 3001

\* The script is not running.
BootOff ==
  [pc |-> "off", env |-> [url |-> Undef, port |-> 0], tunnel |-> "none",
   url |-> Undef, config0 |-> [exists |-> FALSE, lines |-> <<>>],
   config |-> [exists |-> FALSE, lines |-> <<>>], listener |-> 0,
   handlers |-> 0, signals |-> 0, exit |-> -1, failed |-> "none", log |-> <<>>]

\* A line of client/.env: the text before the first "REACT_APP_API_URL=" of
\* the line (key says whether there is one) and the text after it.
KeyLine(pre, val) == [pre |-> pre, key |-> TRUE, val |-> val]
PlainLine(text) == [pre |-> text, key |-> FALSE, val |-> Undef]

File(lines) == [exists |-> TRUE, lines |-> lines]
NoFile == [exists |-> FALSE, lines |-> <<>>]

OldUrl == Str("https://old")

\* envContent.replace(/REACT_APP_API_URL=.*/, `REACT_APP_API_URL=${url}`):
\* no g flag, so the first match only; . stops at the end of the line.
RECURSIVE ReplaceFrom(_, _, _)
ReplaceFrom(lines, i, url) ==
  IF i > Len(lines) THEN lines
  ELSE IF lines[i].key THEN [lines EXCEPT ![i].val = url]
  ELSE ReplaceFrom(lines, i + 1, url)

\* A substitution with the g flag: every match.
ReplaceAll(lines, url) ==
  [i \in 1..Len(lines) |-> IF lines[i].key THEN [lines[i] EXCEPT !.val = url]
                           ELSE lines[i]]

Replace(lines, url) == ReplaceFrom(lines, 1, url)

PortOf(env) == IF env.port = 0 THEN DefaultPort ELSE env.port

Logged(b, event) == [b EXCEPT !.log = Append(@, event)]

\* catch (error) { process.exit(1) }
BootFailed(b, step) == [b EXCEPT !.pc = "exited", !.exit = 1, !.failed = step]

\* The synchronous rest of startNgrok once url is known: read client/.env,
\* substitute, write it back, create the health listener and call listen.
AfterUrl(b, url, readOk, writeOk) ==
  LET withUrl == [b EXCEPT !.url = url]
  IN IF ~b.config.exists \/ ~readOk THEN BootFailed(withUrl, "read")
     ELSE IF ~writeOk THEN BootFailed(withUrl, "write")
     ELSE Logged(Logged([withUrl EXCEPT
                           !.config = File(Replace(b.config.lines, url)),
                           !.pc = "binding"], "write"), "listen")

\* await ngrok.kill() resolved or rejected; then
\* const url = process.env.NGROK_URL || await ngrok.connect({...})
startNgrok(b, ok, readOk, writeOk) ==
  IF ~ok THEN BootFailed(b, "kill")
  ELSE LET killed == Logged([b EXCEPT !.tunnel = "none"], "kill")
       IN IF Truthy(b.env.url) THEN AfterUrl(killed, b.env.url, readOk, writeOk)
          ELSE [killed EXCEPT !.pc = "connect"]

Running == boot.exit = -1

\* The start-up ngrok.kill() returns.
BootKillReturn(ok, readOk, writeOk) ==
  /\ Running
  /\ boot.pc = "kill"
  /\ boot' = startNgrok(boot, ok, readOk, writeOk)
  /\ UNCHANGED <<variant, now, cache, balanceSheet, tradeRows, req, lastFetch, firstFetch>>

NewUrls == {Str("https://t1"), Str("https://t2")}

\* ngrok.connect returns: the tunnel is up and its public URL known, or it
\* rejected.
ConnectReturn(ok, url, readOk, writeOk) ==
  /\ Running
  /\ boot.pc = "connect"
  /\ boot' = IF ok
             THEN AfterUrl(Logged([boot EXCEPT !.tunnel = "new"], "connect"),
                           url, readOk, writeOk)
             ELSE BootFailed(boot, "connect")
  /\ UNCHANGED <<variant, now, cache, balanceSheet, tradeRows, req, lastFetch, firstFetch>>

\* The health listener is bound to port + 1, or listen emits 'error', which
\* nobody handles: the process dies of the uncaught exception.
ListenReturn(ok) ==
  /\ Running
  /\ boot.pc = "binding"
  /\ boot' = IF ok
             THEN [boot EXCEPT !.pc = "serving", !.listener = PortOf(boot.env) + 1]
             ELSE BootFailed(boot, "listen")
  /\ UNCHANGED <<variant, now, cache, balanceSheet, tradeRows, req, lastFetch, firstFetch>>

\* process.on('SIGTERM', ...): the handler calls ngrok.kill() and awaits it.
Sigterm ==
  /\ Running
  /\ boot.signals < MaxSignals
  /\ boot' = [boot EXCEPT !.signals = @ + 1, !.handlers = @ + 1]
  /\ UNCHANGED <<variant, now, cache, balanceSheet, tradeRows, req, lastFetch, firstFetch>>

\* The handler's ngrok.kill() returns.  Resolved: process.exit(0).  Rejected:
\* an unhandled rejection, which ends the process with an error or only
\* warns, as the runtime is set.
SigKillOutcomes == {"resolved", "crash", "warn"}

SigKillReturn(outcome) ==
  /\ Running
  /\ boot.handlers > 0
  /\ boot' = CASE outcome = "resolved" ->
                    Logged([boot EXCEPT !.tunnel = "none", !.handlers = @ - 1,
                                        !.pc = "exited", !.exit = 0], "sigkill")
               [] outcome = "crash" ->
                    [boot EXCEPT !.handlers = @ - 1, !.pc = "exited", !.exit = 1]
               [] OTHER -> [boot EXCEPT !.handlers = @ - 1]
  /\ UNCHANGED <<variant, now, cache, balanceSheet, tradeRows, req, lastFetch, firstFetch>>

\* process.env.NGROK_URL: unset, empty, or a fixed public URL.
EnvUrls == {Undef, Str(""), Str("https://fixed")}
EnvPorts == {0, 8080}

ConfigFiles ==
  { NoFile,
    File(<<>>),
    File(<<PlainLine("PORT=3000")>>),
    File(<<PlainLine("PORT=3000"), KeyLine("", OldUrl)>>),
    File(<<KeyLine("#", OldUrl), KeyLine("", OldUrl)>>) }

\* startNgrok() has been called and is suspended at await ngrok.kill().
InitTunnel ==
  /\ variant = 2
  /\ now = 0
  /\ cache = NoCache
  /\ balanceSheet = <<>>
  /\ tradeRows = <<>>
  /\ req = [r \in Req |-> IdleReq]
  /\ lastFetch = NoFetch
  /\ firstFetch = NoFetch
  /\ \E url \in EnvUrls, port \in EnvPorts, old \in {"none", "old"},
        file \in ConfigFiles :
       boot = [BootOff EXCEPT !.pc = "kill", !.env = [url |-> url, port |-> port],
                              !.tunnel = old, !.config0 = file, !.config = file]

NextTunnel ==
  \/ \E ok, readOk, writeOk \in BOOLEAN : BootKillReturn(ok, readOk, writeOk)
  \/ \E ok, readOk, writeOk \in BOOLEAN, url \in NewUrls :
       ConnectReturn(ok, url, readOk, writeOk)
  \/ \E ok \in BOOLEAN : ListenReturn(ok)
  \/ Sigterm
  \/ \E outcome \in SigKillOutcomes : SigKillReturn(outcome)

SpecTunnel == InitTunnel /\ [][NextTunnel]_vars

\* ------------------------------------------------------- the cache in time
\* Variants 2 and 3, concurrent /api/performance-data requests, the clock.
PerfHeaders == {Header(<<"B", SP, "a">>), Header(<<"B", SP, "z">>)}

InitCache ==
  /\ variant \in {2, 3}
  /\ now = 0
  /\ cache = NoCache
  /\ balanceSheet = <<>>
  /\ tradeRows = <<>>
  /\ req = [r \in Req |-> IdleReq]
  /\ lastFetch = NoFetch
  /\ firstFetch = NoFetch
  /\ boot = BootOff

NextCache ==
  \/ Tick
  \/ \E r \in Req :
       \/ \E hdr \in PerfHeaders : Receive(r, "performance-data", hdr, NoBody)
       \/ \E ok \in BOOLEAN : VerifyReturn(r, ok)
       \/ \E o \in PerfOutcomes : PerfGetReturn(r, o)
       \/ Recycle(r)

SpecCache == InitCache /\ [][NextCache]_vars

\* --------------------------------------------------- the balance sheet
\* Variants 2 and 3, concurrent signup, Google login and wallet requests.
BalanceRow(name, email, earnings, balance) ==
  <<Str(name), Str(email), Str(""), Num(100000), Num(5000), earnings, balance>>

RowA == BalanceRow("Ann", "a@x", Num(5000), Num(105000))
RowB == BalanceRow("Bob", "b@x", Num(0), Str("12.345"))
RowC == BalanceRow("Cy", "c@x", Num(7000), Num(207000))
RowShort == <<Str("Zed")>>

\* User-Balance as the server finds it: at most one row per email.
InitialSheets == {<<>>, <<RowC, RowA>>, <<RowShort, RowB>>}

BearerHeaders ==
  {Header(<<"B", SP, "a">>), Header(<<"B", SP, "b">>), Header(<<"B", SP, "z">>)}

\* Signups: the token's own email, another user's email, a forged token.
SignupForm(email) ==
  [NoBody EXCEPT !.email = email, !.displayName = Str("Ann"),
                 !.phoneNumber = Str("555-0100")]

SignupRequests ==
  {[hdr |-> Header(<<"B", SP, "a">>), body |-> SignupForm(Str("a@x"))],
   [hdr |-> Header(<<"B", SP, "a">>), body |-> SignupForm(Str("b@x"))],
   [hdr |-> Header(<<"B", SP, "z">>), body |-> SignupForm(Str("a@x"))]}

LoginBodies ==
  {[NoBody EXCEPT !.idToken = t] :
     t \in {[def |-> FALSE, chars |-> <<>>], [def |-> TRUE, chars |-> TokA],
            [def |-> TRUE, chars |-> TokB], [def |-> TRUE, chars |-> TokZ]}}

InitBalance ==
  /\ variant \in {2, 3}
  /\ now = 0
  /\ cache = NoCache
  /\ balanceSheet \in InitialSheets
  /\ tradeRows = <<>>
  /\ req = [r \in Req |-> IdleReq]
  /\ lastFetch = NoFetch
  /\ firstFetch = NoFetch
  /\ boot = BootOff

SheetOutcomes == Throws \cup {Rows(balanceSheet)}

NextBalance ==
  \E r \in Req :
    \/ \E rq \in SignupRequests : Receive(r, "signup", rq.hdr, rq.body)
    \/ \E body \in LoginBodies : Receive(r, "login/google", NoHeader, body)
    \/ \E hdr \in BearerHeaders : Receive(r, "wallet-data", hdr, NoBody)
    \/ \E ok \in BOOLEAN : VerifyReturn(r, ok)
    \/ \E ok \in BOOLEAN : IdVerifyReturn(r, ok)
    \/ \E o \in SheetOutcomes : UpdGetReturn(r, o)
    \/ \E ok \in BOOLEAN : UpdAppendReturn(r, ok)
    \/ \E ok \in BOOLEAN : CreateTokenReturn(r, ok)
    \/ \E o \in SheetOutcomes : WalletGetReturn(r, o)
    \/ Recycle(r)

SpecBalance == InitBalance /\ [][NextBalance]_vars

\* -------------------------------------------------------- the middleware
\* All three variants, one request at a time, every endpoint the gateway's
\* contract guards, every shape of Authorization header.
AuthRequired ==
  {"verify-token", "performance-data", "trade-history", "pnl-data",
   "wallet-data", "signup"}

DateStr(i) == [t |-> "str", n |-> i, s |-> "date"]
GoodRow(i) == <<DateStr(i), Str("EURUSD"), Str("SELL"), Num(i * 1005)>>

InitAuth ==
  /\ variant \in 1..3
  /\ now = 0
  /\ cache = NoCache
  /\ balanceSheet = <<RowC, RowA>>
  /\ tradeRows = <<GoodRow(1), GoodRow(2)>>
  /\ req = [r \in Req |-> IdleReq]
  /\ lastFetch = NoFetch
  /\ firstFetch = NoFetch
  /\ boot = BootOff

TradeOutcomes == Throws \cup {Rows(tradeRows)}

NextAuth ==
  \/ Tick
  \/ \E ep \in AuthRequired, hdr \in Headers, email \in Emails :
       Receive(1, ep, hdr, SignupForm(email))
  \/ \E ok \in BOOLEAN : VerifyReturn(1, ok)
  \/ \E o \in PerfOutcomes : PerfGetReturn(1, o)
  \/ \E o \in TradeOutcomes : TradesGetReturn(1, o)
  \/ PnlTimer(1)
  \/ \E o \in TradeOutcomes : PnlGetReturn(1, o)
  \/ \E o \in SheetOutcomes : WalletGetReturn(1, o)
  \/ \E o \in SheetOutcomes : UpdGetReturn(1, o)
  \/ \E ok \in BOOLEAN : UpdAppendReturn(1, ok)
  \/ Recycle(1)

SpecAuth == InitAuth /\ [][NextAuth]_vars

\* ------------------------------------------------------- the trade rows
\* All three variants, one request at a time, /api/trade-history and
\* /api/pnl-data over a family of Trade-History sheets: up to MaxRows rows,
\* one of them (the first or the last) odd in one of five ways.
OddRow(k, i) ==
  CASE k = 1 -> <<>>
    [] k = 2 -> <<DateStr(i), Str("XAUUSD")>>
    [] k = 3 -> <<Str(""), Str("XAUUSD"), Str("BUY"), Num(5000)>>
    [] k = 4 -> <<DateStr(i), Str(""), Str(""), Str("n/a")>>
    [] OTHER -> <<DateStr(i), Num(7000), Str("BUY"), Str("12.345")>>

TradeSheet(n, j, k) ==
  [i \in 1..n |-> IF i = j THEN OddRow(k, i) ELSE GoodRow(i)]

TradeSheets ==
  {TradeSheet(x[1], x[2], x[3]) :
     x \in {y \in (0..MaxRows) \X (0..MaxRows) \X (1..5) : y[2] \in {0, 1, y[1]}}}

InitRows ==
  /\ variant \in 1..3
  /\ now = 0
  /\ cache = NoCache
  /\ balanceSheet = <<>>
  /\ tradeRows \in TradeSheets
  /\ req = [r \in Req |-> IdleReq]
  /\ lastFetch = NoFetch
  /\ firstFetch = NoFetch
  /\ boot = BootOff

NextRows ==
  \/ Tick
  \/ \E ep \in {"trade-history", "pnl-data"} :
       Receive(1, ep, Header(<<"B", SP, "a">>), NoBody)
  \/ \E ok \in BOOLEAN : VerifyReturn(1, ok)
  \/ \E o \in TradeOutcomes : TradesGetReturn(1, o)
  \/ PnlTimer(1)
  \/ \E o \in TradeOutcomes : PnlGetReturn(1, o)
  \/ Recycle(1)

SpecRows == InitRows /\ [][NextRows]_vars

\* ------------------------------------------------- concurrent requests
\* Variants 2 and 3, concurrent requests to guarded routes that look up the
\* cache, read a sheet or append to one, with valid, forged and missing
\* tokens.
ConcEndpoints == {"performance-data", "trade-history", "wallet-data", "signup"}
ConcHeaders == {NoHeader, Header(<<"B", SP, "b">>), Header(<<"B", SP, "z">>)}

InitConc ==
  /\ variant \in {2, 3}
  /\ now = 0
  /\ cache = NoCache
  /\ balanceSheet = <<RowC>>
  /\ tradeRows = <<GoodRow(1)>>
  /\ req = [r \in Req |-> IdleReq]
  /\ lastFetch = NoFetch
  /\ firstFetch = NoFetch
  /\ boot = BootOff

NextConc ==
  \E r \in Req :
    \/ \E ep \in ConcEndpoints, hdr \in ConcHeaders :
         Receive(r, ep, hdr, SignupForm(Str("b@x")))
    \/ \E ok \in BOOLEAN : VerifyReturn(r, ok)
    \/ \E o \in {Throw(503), Rows(<<RowP1>>)} : PerfGetReturn(r, o)
    \/ \E o \in {Throw(503), Rows(tradeRows)} : TradesGetReturn(r, o)
    \/ \E o \in {Throw(503), Rows(balanceSheet)} : WalletGetReturn(r, o)
    \/ \E o \in {Throw(503), Rows(balanceSheet)} : UpdGetReturn(r, o)
    \/ \E ok \in BOOLEAN : UpdAppendReturn(r, ok)
    \/ Recycle(r)

SpecConc == InitConc /\ [][NextConc]_vars

\* ================================================================ claims
\* An authenticated /api/performance-data request of a caching variant whose
\* handler has started.
PerfRead(r) ==
  /\ req[r].ep = "performance-data"
  /\ req[r].user.set
  /\ req[r].pc \in {"perf_get", "done"}

\* C2 as stated: once a fetch has succeeded, every authenticated read that
\* starts within the next 30 seconds returns that fetch's payload and makes
\* no spreadsheet call (stated of the first successful fetch).
C2_AsStated ==
  \A r \in Req :
    (/\ PerfRead(r)
     /\ req[r].pc = "done"
     /\ firstFetch.set
     /\ req[r].start > firstFetch.t
     /\ req[r].start - firstFetch.t <= 30)
    => /\ req[r].reads = 0
       /\ req[r].out = [kind |-> "perf", val |-> firstFetch.p]

\* C2 (amended): an authenticated read that starts at most 30 seconds after
\* the most recent successful fetch makes no spreadsheet call and returns the
\* payload of that most recent fetch; a read that starts more than 30 seconds
\* after the most recent successful fetch makes a new spreadsheet call.
C2_CacheWindow ==
  \A r \in Req :
    PerfRead(r) =>
      /\ req[r].startLive = "live" =>
           /\ req[r].pc = "done"
           /\ req[r].reads = 0
           /\ req[r].status = 200
           /\ req[r].out = [kind |-> "perf", val |-> req[r].expect]
      /\ req[r].startLive = "stale" => req[r].reads = 1

\* A read served from the cache exactly 30 seconds after the fetch, and the
\* fetch of a read that came 31 seconds after an earlier fetch.
C2_Witness ==
  \E r \in Req :
    /\ PerfRead(r)
    /\ req[r].pc = "done"
    /\ req[r].startLive = "live"
    /\ req[r].start = 31
    /\ lastFetch.t = 1
    /\ firstFetch.t = 0
    /\ req[r].reads = 0

\* C3 as stated: when the downstream read fails and an earlier read had
\* succeeded, the response is the cached snapshot and not an error.
C3_StaleOnError ==
  \A r \in Req :
    (/\ PerfRead(r)
     /\ req[r].pc = "done"
     /\ req[r].failed
     /\ req[r].prior)
    => /\ req[r].status = 200
       /\ req[r].out.kind = "perf"

\* The rows of the sheet whose email column equals the email.
RowsOf(sheet, email) == {i \in 1..Len(sheet) : At(sheet[i], 1) = email}

\* C4 as stated: the sheet holds at most one row per email.
C4_OneRowPerEmail ==
  \A e \in Emails : Cardinality(RowsOf(balanceSheet, e)) <= 1

\* C7: a wallet response whose read succeeded is a 200 carrying the
\* authenticated email, with balance and earnings taken from the (first) row
\* whose email column equals that email, and 0 and 0 when no row matches.
\* (A response just sent stands beside the sheet it was computed from.)
C7_WalletFromOwnRow ==
  \A r \in Req :
    (/\ req[r].ep = "wallet-data"
     /\ req[r].pc = "done"
     /\ req[r].user.set
     /\ ~req[r].failed)
    => LET own == RowsOf(balanceSheet, req[r].user.email)
           w == req[r].out.val
       IN /\ req[r].status = 200
          /\ req[r].out.kind = "wallet"
          /\ w.userEmail = req[r].user.email
          /\ IF own = {}
             THEN w.balance = Num(0) /\ w.earnings = Num(0)
             ELSE \E i \in own :
                    /\ \A j \in own : i <= j
                    /\ w.balance = ParseFloat(OrElse(At(balanceSheet[i], 6), Num(0)))
                    /\ w.earnings = ParseFloat(OrElse(At(balanceSheet[i], 5), Num(0)))

\* A wallet answered from the second row of a sheet whose first row is
\* another user's.
C7_Witness ==
  \E r \in Req :
    /\ req[r].ep = "wallet-data"
    /\ req[r].pc = "done"
    /\ req[r].status = 200
    /\ req[r].user.email = Str("a@x")
    /\ Len(balanceSheet) >= 2
    /\ balanceSheet[1] = RowC
    /\ req[r].out.val.balance = Num(105000)
    /\ req[r].out.val.earnings = Num(5000)

\* What one step may do to the sheet: append the row of a pending upsert
\* whose email had no row at the call, and nothing else.
C8_Frame ==
  /\ \A i \in 1..Len(balanceSheet) : balanceSheet'[i] = balanceSheet[i]
  /\ Len(balanceSheet') \in {Len(balanceSheet), Len(balanceSheet) + 1}
  /\ Len(balanceSheet') = Len(balanceSheet) + 1 =>
       \E r \in Req :
         /\ req[r].pc = "upd_append"
         /\ ~req[r].hadRow
         /\ balanceSheet'[Len(balanceSheet')] =
              <<OrElse(req[r].userData.displayName, Str("")),
                req[r].userData.email,
                OrElse(req[r].userData.phoneNumber, Str("")),
                Num(0), Num(0), Num(0), Num(0)>>
  /\ \A r \in Req : req[r].hadRow' => req[r].appends' = 0

\* C8: a step changes the sheet only by appending one row, the row
\* (displayName or '', email, phoneNumber or '', 0, 0, 0, 0) of a pending
\* upsert, and every earlier row stays as it was; an upsert called for an
\* email that already had a row issues no append.
C8_AppendOnly == [][C8_Frame]_vars

\* A signup that appended its row below two rows that were there before.
C8_Witness ==
  \E r \in Req :
    /\ req[r].ep = "signup"
    /\ req[r].pc = "done"
    /\ req[r].status = 200
    /\ req[r].appends = 1
    /\ Len(balanceSheet) = 3
    /\ SubSeq(balanceSheet, 1, 2) = <<RowShort, RowB>>
    /\ balanceSheet[3][2] = Str("a@x")

\* C9 as stated: a Google login answered with a custom token has a balance
\* row for the token's email in the sheet.
C9_RowBeforeToken ==
  \A r \in Req :
    (/\ req[r].ep = "login/google"
     /\ req[r].pc = "done"
     /\ req[r].out.kind = "token")
    => HasRow(balanceSheet, Decode(req[r].token.chars).email)

\* C10: a signup whose body email differs from the token's email is answered
\* 403 without a read or an append of the sheet; a signup reads or appends
\* only for the authenticated email.
C10_SignupEmailMatch ==
  \A r \in Req :
    (req[r].ep = "signup" /\ req[r].user.set) =>
      /\ req[r].body.email # req[r].user.email =>
           /\ req[r].pc = "done"
           /\ req[r].status = 403
           /\ req[r].reads = 0
           /\ req[r].appends = 0
      /\ (req[r].reads > 0 \/ req[r].appends > 0) =>
           req[r].userData.email = req[r].user.email

\* A signup for another user's email, answered 403.
C10_Witness ==
  \E r \in Req :
    /\ req[r].ep = "signup"
    /\ req[r].pc = "done"
    /\ req[r].user.email = Str("a@x")
    /\ req[r].body.email = Str("b@x")
    /\ req[r].status = 403

\* The request came without credentials the verifier accepts: no header, no
\* token part, or a token that is not a valid one.
BadCredentials(hdr) ==
  \/ NoToken(TokenOf(hdr))
  \/ TokenOf(hdr).chars \notin ValidTokens

\* C1 as stated: a request to an auth-required endpoint that carries no
\* acceptable token is answered with an authorization failure (401 or 403)
\* and an error body: no spreadsheet data, no cached snapshot, no identity.
C1_AuthRequired ==
  \A r \in Req :
    (/\ req[r].pc = "done"
     /\ req[r].ep \in AuthRequired
     /\ Defined(variant, req[r].ep)
     /\ BadCredentials(req[r].hdr))
    => /\ req[r].status \in {401, 403}
       /\ req[r].out.kind = "error"

\* C5 as stated: a successful trade-history response lists exactly the rows
\* with all four cells, each once, last spreadsheet row first.
C5_TradesReversed ==
  \A r \in Req :
    (/\ req[r].pc = "done"
     /\ req[r].ep = "trade-history"
     /\ req[r].status = 200)
    => LET full == SelectSeq(tradeRows, LAMBDA row : Len(row) >= 4)
           got == req[r].out.val
       IN /\ Len(got) = Len(full)
          /\ \A i \in 1..Len(got) :
               got[i].timestamp = full[Len(full) + 1 - i][1]

\* C6 as stated: a successful pnl-data response holds the last 20 (or all)
\* of the rows that have a date and a pnl cell, in spreadsheet order, each
\* pnl a two-decimal rendering.
C6_PnlWindow ==
  \A r \in Req :
    (/\ req[r].pc = "done"
     /\ req[r].ep = "pnl-data"
     /\ req[r].status = 200)
    => LET dated == SelectSeq(tradeRows,
                      LAMBDA row : Truthy(At(row, 0)) /\ At(row, 3) # Undef)
           want == LastN(dated, 20)
           got == req[r].out.val
       IN /\ Len(got) <= 20
          /\ Len(got) = Len(want)
          /\ \A i \in 1..Len(got) :
               /\ got[i].date = want[i][1]
               /\ got[i].pnl.t = "dec2"

\* C11: of a request to a route with the verifier in front: without a token
\* part it is answered 401 'No token provided' at once; with a token the
\* verifier rejects it is answered 403 'Invalid token'; a token that is not a
\* valid one never sets req.user; and a request answered by the verifier has
\* no req.user, never entered its route handler and made no spreadsheet call.
C11_FailureKinds ==
  \A r \in Req :
    (req[r].ep # "none" /\ Guarded(variant, req[r].ep)) =>
      LET tok == TokenOf(req[r].hdr)
      IN /\ NoToken(tok) =>
              /\ req[r].pc = "done"
              /\ req[r].status = 401
              /\ req[r].out = [kind |-> "error", val |-> "No token provided"]
         /\ (~NoToken(tok) /\ tok.chars \notin ValidTokens) => ~req[r].user.set
         /\ (~NoToken(tok) /\ req[r].pc = "done" /\ ~req[r].user.set) =>
              /\ req[r].status = 403
              /\ req[r].out = [kind |-> "error", val |-> "Invalid token"]
         /\ ~req[r].user.set =>
              /\ req[r].startLive = "na"
              /\ req[r].reads = 0
              /\ req[r].appends = 0
              /\ req[r].pc \in {"verifying", "done"}

\* A wallet request with a forged token, answered 403 'Invalid token'.
C11_Witness ==
  \E r \in Req :
    /\ req[r].ep = "wallet-data"
    /\ req[r].hdr = Header(<<"B", SP, "z">>)
    /\ req[r].pc = "done"
    /\ req[r].status = 403
    /\ req[r].out.val = "Invalid token"

\* The endpoints that read the spreadsheet for their response.
SheetReaders == {"performance-data", "trade-history", "pnl-data", "wallet-data"}

\* C12 as stated: when the spreadsheet read of a reading endpoint fails and
\* the response is not the cached fallback, the status is 429 for a
\* rate-limit error (code 429) and 500 otherwise, with an error body.
C12_RateLimitStatus ==
  \A r \in Req :
    (/\ req[r].pc = "done"
     /\ req[r].ep \in SheetReaders
     /\ req[r].threw # 0
     /\ req[r].out.kind # "perf")
    => /\ req[r].status = IF req[r].threw = 429 THEN 429 ELSE 500
       /\ req[r].out.kind = "error"

\* The start-up steps the bootstrap has completed, in the order it took them.
BootSteps ==
  SelectSeq(boot.log, LAMBDA e : e \in {"kill", "connect", "write", "listen"})

IsPrefix(p, q) == Len(p) <= Len(q) /\ SubSeq(q, 1, Len(p)) = p

\* C13 as stated: every start-up that gets to its listener has torn down the
\* old tunnel, opened a new one, written that tunnel's URL into the
\* configuration file and called listen, in this order.
C13_AsStated ==
  boot.pc \in {"binding", "serving"} =>
    /\ BootSteps = <<"kill", "connect", "write", "listen">>
    /\ boot.tunnel = "new"
    /\ \E i \in 1..Len(boot.config.lines) :
         boot.config.lines[i].key /\ boot.config.lines[i].val = boot.url

\* C13 (amended): the completed start-up steps are a prefix of kill,
\* connect, write, listen when NGROK_URL is unset or empty, and of kill,
\* write, listen (no tunnel opened, the URL is NGROK_URL) when it is set;
\* the file is rewritten only with a URL in hand, and then only the first
\* line holding REACT_APP_API_URL= changes, to that URL; the listener is on
\* port + 1; a failed start-up step has ended the process with code 1; exit
\* code 0 comes only from a SIGTERM handler whose ngrok.kill() resolved, with
\* the tunnel down.
C13_BootOrder ==
  LET fixed == Truthy(boot.env.url)
      wrote == \E i \in 1..Len(boot.log) : boot.log[i] = "write"
      keyed == {i \in 1..Len(boot.config0.lines) : boot.config0.lines[i].key}
  IN /\ IsPrefix(BootSteps, IF fixed THEN <<"kill", "write", "listen">>
                            ELSE <<"kill", "connect", "write", "listen">>)
     /\ fixed => boot.tunnel # "new"
     /\ ~wrote => boot.config = boot.config0
     /\ wrote =>
          /\ Truthy(boot.url)
          /\ fixed => boot.url = boot.env.url
          /\ ~fixed => boot.url \in NewUrls
          /\ boot.config0.exists /\ boot.config.exists
          /\ Len(boot.config.lines) = Len(boot.config0.lines)
          /\ \A i \in 1..Len(boot.config.lines) :
               boot.config.lines[i] =
                 IF i \in keyed /\ \A j \in keyed : i <= j
                 THEN [boot.config0.lines[i] EXCEPT !.val = boot.url]
                 ELSE boot.config0.lines[i]
     /\ boot.listener # 0 =>
          /\ boot.listener = PortOf(boot.env) + 1
          /\ BootSteps[Len(BootSteps)] = "listen"
     /\ boot.failed # "none" => boot.exit = 1 /\ boot.pc = "exited"
     /\ boot.exit = 0 =>
          /\ boot.signals > 0
          /\ boot.tunnel = "none"
          /\ boot.log[Len(boot.log)] = "sigkill"

\* A start-up with NGROK_URL unset that opened a tunnel, replaced the first
\* of two REACT_APP_API_URL lines, is serving on 3002, and was then told to
\* terminate and left with code 0.
C13_Witness ==
  /\ boot.env = [url |-> Undef, port |-> 0]
  /\ boot.config0 = File(<<KeyLine("#", OldUrl), KeyLine("", OldUrl)>>)
  /\ boot.config = File(<<KeyLine("#", boot.url), KeyLine("", OldUrl)>>)
  /\ boot.listener = 3002
  /\ boot.log = <<"kill", "connect", "write", "listen", "sigkill">>
  /\ boot.exit = 0

\* The awaits a request can be suspended at, and the step that resumes it.
AtVerifier(r) == req[r].pc = "verifying"
AtSheet(r) ==
  req[r].pc \in {"perf_get", "trades_get", "wallet_get", "upd_get", "upd_append"}

Resume(r) ==
  \/ \E ok \in BOOLEAN : VerifyReturn(r, ok)
  \/ \E o \in {Throw(503)} : PerfGetReturn(r, o)
  \/ \E o \in {Throw(503)} : TradesGetReturn(r, o)
  \/ \E o \in {Throw(503)} : WalletGetReturn(r, o)
  \/ \E o \in {Throw(503)} : UpdGetReturn(r, o)
  \/ \E ok \in {FALSE} : UpdAppendReturn(r, ok)

Arrive(r) == Receive(r, "performance-data", Header(<<"B", SP, "b">>), NoBody)

\* C14: of the requests to routes behind the verifier, whatever the others
\* are doing: a request that has entered its handler (cache lookup), is
\* waiting on the spreadsheet or has issued a read or an append has had its
\* own token verified; a request not verified has entered no handler and
\* issued no spreadsheet call; and while a request waits at the verifier or
\* at the spreadsheet, every other waiting request can take its next step
\* and a free slot can take a new request.
C14_IndependentRequests ==
  \A r \in Req :
    (req[r].ep # "none" /\ Guarded(variant, req[r].ep)) =>
      /\ (\/ req[r].startLive # "na"
          \/ AtSheet(r)
          \/ req[r].reads > 0
          \/ req[r].appends > 0)
         => /\ req[r].user.set
            /\ req[r].token.chars \in ValidTokens
            /\ req[r].user.email = Decode(req[r].token.chars).email
      /\ ~req[r].user.set =>
           /\ req[r].startLive = "na"
           /\ ~AtSheet(r)
           /\ req[r].reads = 0
           /\ req[r].appends = 0
           /\ req[r].cachedData = NoHit
      /\ (Delivered /\ (AtVerifier(r) \/ AtSheet(r))) =>
           \A q \in Req \ {r} :
             /\ (AtVerifier(q) \/ AtSheet(q)) => ENABLED Resume(q)
             /\ req[q].pc = "idle" => ENABLED Arrive(q)

\* One request suspended at the append of its signup while another is
\* suspended at the verifier.
C14_Witness ==
  \E r, q \in Req :
    /\ req[r].ep = "signup"
    /\ req[r].pc = "upd_append"
    /\ req[r].user.set
    /\ req[q].ep = "performance-data"
    /\ AtVerifier(q)

\* The snapshots of the two rows the performance range can hold:
\* (1.234, -2.505, 10.5, 99.499) and ('12.345', 0, -0.5, missing).
Snapshot(thisWeek, lastWeek, monthly, yearly) ==
  [thisWeek |-> [t |-> "dec2", n |-> thisWeek, s |-> ""],
   lastWeek |-> [t |-> "dec2", n |-> lastWeek, s |-> ""],
   monthly |-> Num(monthly), yearly |-> Num(yearly)]

PerfSnapshots == {Snapshot(123, -251, 11000, 99000), Snapshot(1235, 0, 0, 0)}

\* C15: what the cache holds under 'performance-data' is the four-field
\* snapshot of the most recent spreadsheet read that succeeded, stored when
\* that read returned and for 30 seconds; what a lookup finds there is
\* therefore a full snapshot (two two-decimal strings, two rounded numbers)
\* of a successful read at most 30 seconds old, never an error or an empty
\* result; with no successful read yet there is no entry.
C15_CacheEntry ==
  LET hit == CacheGet(cache, now)
  IN /\ cache.set =>
          /\ lastFetch.set
          /\ cache.v = lastFetch.p
          /\ cache.t = lastFetch.t + 30
     /\ hit.found =>
          /\ now - lastFetch.t <= 30
          /\ DOMAIN hit.v = {"thisWeek", "lastWeek", "monthly", "yearly"}
          /\ hit.v.thisWeek.t = "dec2" /\ hit.v.lastWeek.t = "dec2"
          /\ hit.v.monthly.t = "num" /\ hit.v.yearly.t = "num"
          /\ hit.v \in PerfSnapshots
     /\ ~lastFetch.set => cache = NoCache

\* An entry found 30 seconds after the second of two successful reads, one
\* of which came after a failed read had left the cache alone.
C15_Witness ==
  /\ CacheGet(cache, now).found
  /\ firstFetch.set /\ lastFetch.set
  /\ firstFetch.t = 0
  /\ lastFetch.t = 31
  /\ now = 61
  /\ cache.v = lastFetch.p
  /\ lastFetch.p # firstFetch.p

====
